---- MODULE Spec2Model ----
(***************************************************************************)
(* Root-scoped path authorization of the filesystem MCP server.            *)
(*                                                                         *)
(* Two programs of the repository are modelled:                            *)
(*   - the modular server: utilities/dependencies.py (resolver and         *)
(*     authorizer), tools/filesystem.py, tools/file_transfer.py and        *)
(*     tools/server_management.py (administrative registry operations);    *)
(*   - the monolithic server main.py with tests/systemmonitoring.py, which *)
(*     main.py wires to its own norm_path and withinAllowed.               *)
(* SpecMod runs the first, SpecMain the second.                            *)
(*                                                                         *)
(* A path is a sequence of names; a name is a sequence of text pieces in   *)
(* which "." is always a piece of its own, so that the text of a path and  *)
(* the suffix of a name are computed, not assumed.                         *)
(***************************************************************************)
EXTENDS Integers, Sequences, FiniteSets, TLC

\* ------------------------------------------------------------------------
\* Bounds
\* ------------------------------------------------------------------------
MaxRoots == 2          \* longest registry the administrative inputs build
MaxRecords == 2        \* most records a store holds
MaxLen == 3            \* most characters a log file holds

\* ------------------------------------------------------------------------
\* Names and paths of the modelled file tree
\* ------------------------------------------------------------------------
nData == <<"data">>
nData2 == <<"data", "2">>
nEtc == <<"etc">>
nPasswd == <<"passwd">>
nTxt == <<"f", ".", "txt">>
nPem == <<"s", ".", "pem">>
nEnv == <<".", "env">>
nUpperPem == <<"S", ".", "PEM">>
nNew == <<"new">>
nLink == <<"link">>
nIn == <<"in">>
DotDot == <<"..">>
Tilde == <<"~">>

pRoot == <<>>
pData == <<nData>>
pDataTxt == <<nData, nTxt>>
pDataPem == <<nData, nPem>>
pDataEnv == <<nData, nEnv>>
pDataUpperPem == <<nData, nUpperPem>>
pDataNew == <<nData, nNew>>
pData2 == <<nData2>>
pData2Txt == <<nData2, nTxt>>
pEtc == <<nEtc>>
pEtcPasswd == <<nEtc, nPasswd>>
pEtcNew == <<nEtc, nNew>>

\* symbolic links of the tree: /data/link -> /etc, /in -> /data
pDataLink == <<nData, nLink>>
pIn == <<nIn>>
Symlinks == {pDataLink, pIn}
SymTarget(p) == IF p = pDataLink THEN pEtc ELSE pData

\* home directory of the server's user and its working directory
Home == pData2
Cwd == pEtc

\* the canonical paths whose kind the model tracks
Nodes ==
    {pRoot, pData, pDataTxt, pDataPem, pDataNew, pData2, pData2Txt,
     pEtc, pEtcPasswd, pEtcNew, pDataEnv, pDataUpperPem}

InitFs ==
    [p \in Nodes |->
        IF p \in {pRoot, pData, pData2, pEtc} THEN "dir"
        ELSE IF p \in {pDataTxt, pDataPem, pData2Txt, pEtcPasswd, pDataEnv,
                        pDataUpperPem} THEN "file"
        ELSE "none"]

\* the request paths clients send (raw, before canonicalization)
rLinkPasswd == <<nData, nLink, nPasswd>>      \* /data/link/passwd
rDotsPasswd == <<nData, DotDot, nEtc, nPasswd>> \* /data/../etc/passwd
rInTxt == <<nIn, nTxt>>                        \* /in/f.txt
rHomeTxt == <<Tilde, nTxt>>                    \* ~/f.txt

RawPaths ==
    {pData, pDataTxt, pDataPem, pDataNew, pData2, pData2Txt, pEtcPasswd,
     pEtcNew, rLinkPasswd, rDotsPasswd, rInTxt, rHomeTxt}

\* directories and other arguments the administrative tools are called with
AdminArgs == {pData, pData2, pIn, pDataTxt, pDataNew}
ListArgs ==
    {<<>>, <<pData>>, <<pData2>>, <<pDataNew>>, <<pData, pData2>>,
     <<pData2, pData>>, <<pData, pData>>, <<pData2, pDataNew>>,
     <<pDataNew, pData2>>, <<pIn, pData>>}

VARIABLES
    fs,              \* kind of every tracked canonical path
    ALLOWED_ROOTS,   \* config.settings.ALLOWED_ROOTS (modular registry)
    GLOBAL_ROOTS,    \* dependencies.GLOBAL_ROOTS (list the resolver reads)
    shared,          \* GLOBAL_ROOTS and ALLOWED_ROOTS are one list object
    CMD_LINE_ROOTS,  \* main.CMD_LINE_ROOTS (monolith registry)
    call,            \* the tool call in flight, or its returned result
    adm,             \* the last administrative call and what it returned
    storage,         \* the backend of the key-value store and what it holds
    obs,             \* the last operation on the store and what it returned
    auth,            \* configuration and outcome of get_auth_provider
    content,         \* the text of the log files
    writers          \* the writers of the DiskStore file between _load and _save

pathVars == <<fs, ALLOWED_ROOTS, GLOBAL_ROOTS, shared, CMD_LINE_ROOTS, call, adm>>

storeVars == <<storage, obs, auth>>

auxVars == <<content, writers>>

vars == <<pathVars, storeVars, auxVars>>

\* ------------------------------------------------------------------------
\* Sequences
\* ------------------------------------------------------------------------
Range(s) == {s[i] : i \in 1..Len(s)}

IsPrefixOf(a, b) == Len(a) <= Len(b) /\ SubSeq(b, 1, Len(a)) = a

Count(x, s) == Cardinality({i \in 1..Len(s) : s[i] = x})

SeqsUpTo(S, n) == UNION {[1..k -> S] : k \in 0..n}

RECURSIVE RemoveFirst(_, _)
RemoveFirst(s, x) ==
    IF s = <<>> THEN <<>>
    ELSE IF Head(s) = x THEN Tail(s)
    ELSE <<Head(s)>> \o RemoveFirst(Tail(s), x)

RECURSIVE Dedup(_)
Dedup(s) ==
    IF s = <<>> THEN <<>>
    ELSE LET d == Dedup(SubSeq(s, 1, Len(s) - 1))
             x == s[Len(s)]
         IN IF x \in Range(d) THEN d ELSE Append(d, x)

\* ------------------------------------------------------------------------
\* utilities/storage.py: values, JSON text and Fernet tokens
\* ------------------------------------------------------------------------
\* a text is a sequence of pieces; a Python value is its type and the
\* pieces it is made of
Str(s) == [t |-> "str", x |-> s]

None == [t |-> "none", x |-> <<>>]

Raised(exc) == [t |-> "raise", x |-> <<exc>>]

vToken == Str(<<"abc123">>)

vDigits == Str(<<"123">>)

vDict == [t |-> "dict", x |-> <<"a", "1">>]

vList == [t |-> "list", x |-> <<"a">>]

\* a string holding a lone surrogate: str.encode() raises on it
vSurrogate == Str(<<"\\ud800">>)


Digits == {"1", "123"}

\* json.dumps
json_dumps(v) ==
    IF v.t = "str" THEN <<"\"">> \o v.x \o <<"\"">>
    ELSE IF v.t = "int" THEN v.x
    ELSE IF v.t = "dict" THEN <<"{", "\"", v.x[1], "\"", ":", v.x[2], "}">>
    ELSE IF v.t = "list" THEN <<"[", "\"", v.x[1], "\"", "]">>
    ELSE <<"null">>

\* json.loads: ok = FALSE stands for json.JSONDecodeError
json_loads(s) ==
    IF s = <<"null">> THEN [ok |-> TRUE, v |-> None]
    ELSE IF Len(s) = 1 /\ s[1] \in Digits
    THEN [ok |-> TRUE, v |-> [t |-> "int", x |-> s]]
    ELSE IF Len(s) = 7 /\ s[1] = "{" /\ s[2] = "\"" /\ s[4] = "\""
            /\ s[5] = ":" /\ s[6] \in Digits /\ s[7] = "}"
    THEN [ok |-> TRUE, v |-> [t |-> "dict", x |-> <<s[3], s[6]>>]]
    ELSE IF Len(s) = 5 /\ s[1] = "[" /\ s[2] = "\"" /\ s[4] = "\""
            /\ s[5] = "]"
    THEN [ok |-> TRUE, v |-> [t |-> "list", x |-> <<s[3]>>]]
    ELSE IF Len(s) >= 2 /\ s[1] = "\"" /\ s[Len(s)] = "\""
            /\ \A i \in 2..(Len(s) - 1) : s[i] # "\""
    THEN [ok |-> TRUE, v |-> Str(SubSeq(s, 2, Len(s) - 1))]
    ELSE [ok |-> FALSE, v |-> None]

\* str(value): the repr of a list or of a dict is not JSON
py_str(v) ==
    IF v.t \in {"str", "int"} THEN v.x
    ELSE IF v.t = "dict" THEN <<"{", "'", v.x[1], "'", ":", v.x[2], "}">>
    ELSE IF v.t = "list" THEN <<"[", "'", v.x[1], "'", "]">>
    ELSE <<"None">>

\* str.encode(): UnicodeEncodeError on a lone surrogate
encodable(s) == "\\ud800" \notin Range(s)

\* bool(value) as "if not encrypted_value" and "collection or ..." take it
value_truthy(v) == v.t # "none" /\ v.x # <<>>

\* Fernet(key).encrypt: a token only the same key opens
fernet_encrypt(k, s) == <<"gAAAAA", k>> \o s

\* Fernet(key).decrypt: ok = FALSE stands for InvalidToken
fernet_decrypt(k, token) ==
    IF Len(token) >= 2 /\ token[1] = "gAAAAA" /\ token[2] = k
    THEN [ok |-> TRUE, s |-> SubSeq(token, 3, Len(token))]
    ELSE [ok |-> FALSE, s |-> <<>>]

\* collection: Optional[str]
NoCollection == [none |-> TRUE, s |-> <<>>]

Coll(s) == [none |-> FALSE, s |-> s]

cDefault == Coll(<<"default">>)

cA == Coll(<<"a">>)

cAB == Coll(<<"a", ":", "b">>)

Collections == {NoCollection, cDefault, cA, cAB}

kC == <<"c">>

kBC == <<"b", ":", "c">>

\* the records the callers address
Addresses ==
    {[key |-> kC, coll |-> NoCollection], [key |-> kC, coll |-> cDefault],
     [key |-> kBC, coll |-> cA], [key |-> kC, coll |-> cAB]}

\* collection or "default"
coll_or_default(collection) ==
    IF ~collection.none /\ collection.s # <<>> THEN collection.s
    ELSE <<"default">>

\* a table with one entry more, and with one entry less
Updated(tab, a, x) ==
    [p \in DOMAIN tab \cup {a} |-> IF p = a THEN x ELSE tab[p]]

Removed(tab, a) == [p \in DOMAIN tab \ {a} |-> tab[p]]

EmptyTable == [p \in {} |-> <<>>]

\* ------------------------------------------------------------------------
\* utilities/storage.py: the backends
\* ------------------------------------------------------------------------
\* DiskStore._load: the document of the file, {} when there is no file;
\* open() on a directory raises IsADirectoryError, which _load lets through
DiskStore_load(st) ==
    IF st.kind = "dir" THEN [ok |-> FALSE, doc |-> EmptyTable]
    ELSE IF st.kind = "missing" THEN [ok |-> TRUE, doc |-> EmptyTable]
    ELSE [ok |-> TRUE, doc |-> st.doc]

\* DiskStore._save: the document written as JSON; a failure is only logged
DiskStore_save(st, data) ==
    IF st.kind = "dir" THEN st
    ELSE [st EXCEPT !.kind = "file", !.doc = data]

DiskStore_get(st, key, collection) ==
    LET data == DiskStore_load(st)
        a == <<coll_or_default(collection), key>>
    IN IF ~data.ok THEN Raised("IsADirectoryError")
       ELSE IF a \in DOMAIN data.doc THEN json_loads(data.doc[a]).v
       ELSE None

DiskStore_put(st, key, value, collection) ==
    LET data == DiskStore_load(st)
        a == <<coll_or_default(collection), key>>
    IN IF ~data.ok THEN [st |-> st, res |-> Raised("IsADirectoryError")]
       ELSE [st |-> DiskStore_save(st, Updated(data.doc, a, json_dumps(value))),
             res |-> None]

DiskStore_delete(st, key, collection) ==
    LET data == DiskStore_load(st)
        a == <<coll_or_default(collection), key>>
    IN IF ~data.ok THEN [st |-> st, res |-> Raised("IsADirectoryError")]
       ELSE IF a \in DOMAIN data.doc
       THEN [st |-> DiskStore_save(st, Removed(data.doc, a)), res |-> None]
       ELSE [st |-> st, res |-> None]

\* RedisStore._make_key
RedisStore_make_key(key, collection) ==
    IF ~collection.none /\ collection.s # <<>>
    THEN collection.s \o <<":">> \o key
    ELSE key

\* RedisStore.get: a string (decode_responses=True); any error gives None
RedisStore_get(st, key, collection) ==
    LET k == RedisStore_make_key(key, collection)
    IN IF ~st.up THEN None
       ELSE IF k \in DOMAIN st.db THEN Str(st.db[k])
       ELSE None

\* RedisStore.put: redis writes a str or a number as text and raises
\* DataError on a dict or a list; every error is logged and swallowed
RedisStore_put(st, key, value, collection) ==
    LET k == RedisStore_make_key(key, collection)
    IN IF st.up /\ value.t \in {"str", "int"} /\ encodable(value.x)
       THEN [st |-> [st EXCEPT !.db = Updated(st.db, k, value.x)],
             res |-> None]
       ELSE [st |-> st, res |-> None]

RedisStore_delete(st, key, collection) ==
    LET k == RedisStore_make_key(key, collection)
    IN IF st.up
       THEN [st |-> [st EXCEPT !.db = Removed(st.db, k)], res |-> None]
       ELSE [st |-> st, res |-> None]

\* MemoryStore: an in-process table
MemoryStore_get(st, key, collection) ==
    LET a == <<coll_or_default(collection), key>>
    IN IF a \in DOMAIN st.table THEN st.table[a] ELSE None

MemoryStore_put(st, key, value, collection) ==
    [st |-> [st EXCEPT !.table =
                 Updated(st.table, <<coll_or_default(collection), key>>, value)],
     res |-> None]

MemoryStore_delete(st, key, collection) ==
    [st |-> [st EXCEPT !.table =
                 Removed(st.table, <<coll_or_default(collection), key>>)],
     res |-> None]

\* self.store.get / put / delete of the backend the instance was built on
store_get(st, key, collection) ==
    IF st.backend = "DiskStore" THEN DiskStore_get(st, key, collection)
    ELSE IF st.backend = "RedisStore" THEN RedisStore_get(st, key, collection)
    ELSE MemoryStore_get(st, key, collection)

store_put(st, key, value, collection) ==
    IF st.backend = "DiskStore" THEN DiskStore_put(st, key, value, collection)
    ELSE IF st.backend = "RedisStore"
    THEN RedisStore_put(st, key, value, collection)
    ELSE MemoryStore_put(st, key, value, collection)

store_delete(st, key, collection) ==
    IF st.backend = "DiskStore" THEN DiskStore_delete(st, key, collection)
    ELSE IF st.backend = "RedisStore"
    THEN RedisStore_delete(st, key, collection)
    ELSE MemoryStore_delete(st, key, collection)

\* ------------------------------------------------------------------------
\* utilities/storage.py: FernetEncryptionWrapper
\* ------------------------------------------------------------------------
\* the text put() encrypts: json.dumps of a dict, str() of any other value
\* that is not a string
Fernet_plaintext(value) ==
    IF value.t = "dict" THEN json_dumps(value)
    ELSE IF value.t # "str" THEN py_str(value)
    ELSE value.x

\* what put() hands to the inner store
Fernet_encrypted_plain(k, value) == Str(Fernet_plaintext(value))

Fernet_encrypted(k, value) == Str(fernet_encrypt(k, Fernet_plaintext(value)))

\* put(): inner is what self.store.put received, None when it was not
\* called
Fernet_put(st, k, key, value, collection) ==
    IF ~encodable(Fernet_plaintext(value))
    THEN [st |-> st, res |-> Raised("UnicodeEncodeError"), inner |-> None]
    ELSE LET encrypted == Fernet_encrypted(k, value)
             r == store_put(st, key, encrypted, collection)
         IN [st |-> r.st, res |-> r.res, inner |-> encrypted]

\* the result of get() once the inner store has answered
Fernet_decoded_raw(k, encrypted_value) == encrypted_value

Fernet_decoded(k, encrypted_value) ==
    IF encrypted_value.t # "str" THEN None
    ELSE LET d == fernet_decrypt(k, encrypted_value.x)
         IN IF ~d.ok THEN None
            ELSE IF json_loads(d.s).ok THEN json_loads(d.s).v
            ELSE Str(d.s)

Fernet_get(st, k, key, collection) ==
    LET encrypted_value == store_get(st, key, collection)
    IN IF encrypted_value.t = "raise" THEN encrypted_value
       ELSE IF ~value_truthy(encrypted_value) THEN None
       ELSE Fernet_decoded(k, encrypted_value)

Fernet_delete(st, k, key, collection) == store_delete(st, key, collection)

\* ------------------------------------------------------------------------
\* A store instance in use
\* ------------------------------------------------------------------------
\* the Fernet keys a wrapper is built with; "bare" is the backend itself
FernetKeys == {"K1", "K2"}

Vias == {"bare"} \cup FernetKeys

\* the values the callers put, on the backend itself and through a wrapper
PutInputs ==
    {[via |-> "bare", value |-> v] : v \in {vToken, vDict, vList}}
    \cup {[via |-> "K1", value |-> v] :
             v \in {vToken, vDigits, vDict, vList, vSurrogate}}

Backends == {"MemoryStore", "DiskStore", "RedisStore"}

NoObs ==
    [op |-> "none", via |-> "bare", key |-> <<>>, coll |-> NoCollection,
     val |-> None, res |-> None, inner |-> None]

NoStorage ==
    [backend |-> "none", up |-> TRUE, kind |-> "missing",
     doc |-> EmptyTable, db |-> EmptyTable, table |-> EmptyTable]

\* number of records the backend holds
Records(st) ==
    Cardinality(DOMAIN st.doc) + Cardinality(DOMAIN st.db)
        + Cardinality(DOMAIN st.table)

\* get_auth_provider was not called
NoAuth == [pc |-> "none"]

\* the key-value store and the authentication bootstrap are not in use
StoreUnused == storage = NoStorage /\ obs = NoObs /\ auth = NoAuth

\* the processes that write one DiskStore file (inside one event loop put
\* and delete have no suspension point between _load and _save)
Writers == {"W1", "W2"}

\* a caller outside put and delete
IdleWriter ==
    [pc |-> "idle", op |-> "none", a |-> <<>>, value |-> None,
     data |-> EmptyTable, stale |-> FALSE]

\* no log file is read and no caller is inside DiskStore
NoAux == content = <<>> /\ writers = [w \in Writers |-> IdleWriter]

\* ------------------------------------------------------------------------
\* pathlib / os.path
\* ------------------------------------------------------------------------
\* os.path.expanduser: a leading "~" becomes the home directory
expanduser(raw) ==
    IF raw # <<>> /\ Head(raw) = Tilde THEN Home \o Tail(raw) ELSE raw

\* Path.resolve(): ".." pops a segment, a symbolic link is replaced by its
\* target, a missing component is kept as it is (strict=False)
RECURSIVE ResolveFrom(_, _)
ResolveFrom(cur, rest) ==
    IF rest = <<>> THEN cur
    ELSE LET n == Head(rest)
             np == Append(cur, n)
         IN IF n = DotDot
            THEN ResolveFrom(IF cur = <<>> THEN <<>>
                             ELSE SubSeq(cur, 1, Len(cur) - 1), Tail(rest))
            ELSE IF np \in Symlinks
            THEN ResolveFrom(SymTarget(np), Tail(rest))
            ELSE ResolveFrom(np, Tail(rest))

\* os.path.normpath: ".." is collapsed, symbolic links are not followed
RECURSIVE NormFrom(_, _)
NormFrom(cur, rest) ==
    IF rest = <<>> THEN cur
    ELSE IF Head(rest) = DotDot
    THEN NormFrom(IF cur = <<>> THEN <<>>
                  ELSE SubSeq(cur, 1, Len(cur) - 1), Tail(rest))
    ELSE NormFrom(Append(cur, Head(rest)), Tail(rest))

resolve_lexical(raw) == NormFrom(<<>>, raw)

resolve(raw) == ResolveFrom(<<>>, raw)

\* main.norm_path
norm_path(raw) == resolve(expanduser(raw))

Kind(f, p) == IF p \in DOMAIN f THEN f[p] ELSE "none"
exists(f, p) == Kind(f, p) # "none"
is_dir(f, p) == Kind(f, p) = "dir"
is_file(f, p) == Kind(f, p) = "file"

parent(p) == IF p = <<>> THEN <<>> ELSE SubSeq(p, 1, Len(p) - 1)

\* str(path): "/" before every name
RECURSIVE Text(_)
Text(p) ==
    IF p = <<>> THEN <<>>
    ELSE Text(SubSeq(p, 1, Len(p) - 1)) \o <<"/">> \o p[Len(p)]

\* PurePath.relative_to succeeds: root's parts are a prefix of p's parts
relative_to_text(p, root) == IsPrefixOf(Text(root), Text(p))
relative_to(p, root) == IsPrefixOf(root, p)

\* PurePath.suffix: from the last "." of the final name, unless that "." is
\* the first or the last piece of the name
LastDot(name) ==
    LET I == {i \in 1..Len(name) : name[i] = "."}
    IN IF I = {} THEN 0 ELSE CHOOSE i \in I : \A j \in I : j <= i

suffix(p) ==
    IF p = <<>> THEN <<>>
    ELSE LET name == p[Len(p)]
             i == LastDot(name)
         IN IF 1 < i /\ i < Len(name)
            THEN SubSeq(name, i, Len(name)) ELSE <<>>


\* ------------------------------------------------------------------------
\* utilities/dependencies.py
\* ------------------------------------------------------------------------
\* check_path: expanduser + resolve; raises when the path must exist and
\* does not.  ok = FALSE stands for the raised ValueError.
check_path(f, value, check_existence) ==
    LET v == resolve(expanduser(value))
    IN [ok |-> (~check_existence) \/ exists(f, v), path |-> v]

\* uri_to_path(str(root.uri)) on one root the client returned; a dict has
\* no attribute uri, which raises as well
uri_to_path(f, root) ==
    IF root.form # "object" THEN [ok |-> FALSE, path |-> <<>>]
    ELSE IF root.scheme # "file" THEN [ok |-> FALSE, path |-> <<>>]
    ELSE check_path(f, root.path, TRUE)

\* fetch_roots_from_client: the list of converted roots, or None
\* (some = FALSE) when list_roots raised, returned None, or one conversion
\* raised inside the try block
fetch_roots_from_client(f, answer) ==
    IF answer.st # "roots" THEN [some |-> FALSE, roots |-> <<>>]
    ELSE LET conv == [i \in 1..Len(answer.roots) |->
                          uri_to_path(f, answer.roots[i])]
         IN IF \A i \in 1..Len(conv) : conv[i].ok
            THEN [some |-> TRUE,
                  roots |-> [i \in 1..Len(conv) |-> conv[i].path]]
            ELSE [some |-> FALSE, roots |-> <<>>]

\* get_combined_roots, first half: the copy of GLOBAL_ROOTS taken before
\* the client is asked
snapshot_roots(roots) == [i \in 1..Len(roots) |-> roots[i]]

\* get_combined_roots, second half: what it returns once the client has
\* answered (fetched.some = FALSE also stands for "capability absent")
StaticPartLive(snap, live) == live

StaticPart(snap, live) == snap

get_combined_roots(f, snap, live, fetched) ==
    IF fetched.some
    THEN StaticPart(snap, live) \o
         [i \in 1..Len(fetched.roots) |->
              check_path(f, fetched.roots[i], TRUE).path]
    ELSE StaticPart(snap, live)

\* withinAllowed: "true", "false", or "raise" when check_path(path) raises
\* because the path does not exist
withinAllowed(f, path, current_scope) ==
    LET c == check_path(f, path, TRUE)
    IN IF ~c.ok THEN "raise"
       ELSE IF \E i \in 1..Len(current_scope) :
                   relative_to(c.path, resolve(current_scope[i]))
            THEN "true" ELSE "false"

\* validate_path after the scope is known: the kind of ValueError raised,
\* or "ok" with the canonical path
validate_path(f, path_str, must_exist, expected_type, current_scope) ==
    LET path == check_path(f, path_str, FALSE).path
        w == withinAllowed(f, path, current_scope)
    IN IF w = "raise" THEN [kind |-> "notfound", path |-> path]
       ELSE IF w = "false" THEN [kind |-> "outside", path |-> path]
       ELSE IF must_exist /\ ~exists(f, path)
            THEN [kind |-> "notfound", path |-> path]
       ELSE IF must_exist /\ expected_type = "file" /\ ~is_file(f, path)
            THEN [kind |-> "wrongtype", path |-> path]
       ELSE IF must_exist /\ expected_type = "dir" /\ ~is_dir(f, path)
            THEN [kind |-> "wrongtype", path |-> path]
       ELSE [kind |-> "ok", path |-> path]

\* the causes for which dependencies.validate_path raises, and the class
\* of the exception it raises for each
DenialCauses == {"outside", "notfound", "wrongtype"}

ExceptionClass(cause) ==
    IF cause = "outside" THEN "ValueError"
    ELSE IF cause = "notfound" THEN "ValueError"
    ELSE IF cause = "wrongtype" THEN "ValueError"
    ELSE "none"


\* ------------------------------------------------------------------------
\* Tool calls
\* ------------------------------------------------------------------------
NoEffects == {}

\* call and adm hold what the latest operation returned: a tool call
\* forgets the last administrative result and the other way round
NoAdm == [op |-> "none", res |-> "none"]

Idle ==
    [pc |-> "idle", tool |-> "none", raw |-> <<>>, cap |-> FALSE,
     stage |-> 0, snap |-> <<>>, snapAt |-> <<>>, mutated |-> FALSE,
     fetched |-> "none", scope |-> <<>>, authz |-> "none",
     res |-> "none", canon |-> <<>>, eff |-> NoEffects, raws |-> <<>>,
     confirm |-> FALSE, lines |-> 100, out |-> <<>>]

\* what the client answers to list_roots
\* a root is a Root object (attribute uri) or a plain dict (key "uri")
ClientRootEntries ==
    {[scheme |-> "file", path |-> pEtc, form |-> "object"],
     [scheme |-> "file", path |-> pEtc, form |-> "dict"],
     [scheme |-> "file", path |-> pDataNew, form |-> "object"],
     [scheme |-> "file", path |-> pData, form |-> "object"]}

ClientAnswers ==
    {[st |-> "error", roots |-> <<>>], [st |-> "none", roots |-> <<>>]}
    \cup {[st |-> "roots", roots |-> r] : r \in SeqsUpTo(ClientRootEntries, 1)}
    \cup {[st |-> "roots",
           roots |-> <<[scheme |-> "file", path |-> pEtc, form |-> "object"],
                       [scheme |-> "http", path |-> pData2, form |-> "object"]>>],
          [st |-> "roots",
           roots |-> <<[scheme |-> "file", path |-> pEtc, form |-> "dict"],
                       [scheme |-> "http", path |-> pData2, form |-> "dict"]>>]}

FetchStatus(cap, fetched) ==
    IF ~cap THEN "nocap" ELSE IF fetched.some THEN "roots" ELSE "failed"

NoFetch == [some |-> FALSE, roots |-> <<>>]

\* the request paths each tool is called with
ToolInputs(tool) ==
    IF tool = "read_file" THEN RawPaths \ {pData2, pEtcNew}
    ELSE IF tool = "list_files" THEN {pData, pData2, pDataTxt}
    ELSE IF tool = "write_file" THEN {pDataTxt, pDataNew, pEtcNew, pData}
    ELSE IF tool = "create_directory" THEN {pDataNew, pData, pEtcNew}
    ELSE {pDataTxt, pDataPem, pEtcPasswd}

\* tools of tools/filesystem.py and tools/file_transfer.py that await
\* dependencies.validate_path
AwaitTools ==
    {"list_files", "read_file", "write_file", "create_directory",
     "prepare_file_for_download"}

must_exist(tool) == tool \notin {"write_file", "create_directory"}

expected_type(tool) ==
    IF tool = "list_files" THEN "dir"
    ELSE IF tool \in {"read_file", "prepare_file_for_download"} THEN "file"
    ELSE "None"

EffectOf(tool) ==
    IF tool = "list_files" THEN "list"
    ELSE IF tool = "read_file" THEN "read"
    ELSE IF tool = "prepare_file_for_download" THEN "copy"
    ELSE IF tool = "write_file" THEN "write"
    ELSE "mkdir"

\* the file tree after write_text / mkdir(parents, exist_ok) on path
FsAfter(f, tool, path) ==
    IF path \notin DOMAIN f THEN f
    ELSE IF tool = "write_file" THEN [f EXCEPT ![path] = "file"]
    ELSE IF tool = "create_directory" THEN [f EXCEPT ![path] = "dir"]
    ELSE f

\* the tool body after its last authorization returned allow
Perform(f, c, path) ==
    IF c.tool = "write_file" /\ is_dir(f, path)
    THEN [rec |-> [c EXCEPT !.pc = "done", !.res = "error", !.canon = path],
          fs |-> f]
    ELSE IF c.tool = "create_directory" /\ is_file(f, path)
    THEN [rec |-> [c EXCEPT !.pc = "done", !.res = "error", !.canon = path],
          fs |-> f]
    ELSE [rec |-> [c EXCEPT !.pc = "done", !.res = "ok", !.canon = path,
                            !.eff = {[op |-> EffectOf(c.tool), path |-> path]}],
          fs |-> FsAfter(f, c.tool, path)]

\* write_file / create_directory: the second check, withinAllowed(parent)
AfterParent(f, c, live, fetched) ==
    LET scope == get_combined_roots(f, c.snap, live, fetched)
        path == check_path(f, c.raw, FALSE).path
        w == withinAllowed(f, parent(path), scope)
        c1 == [c EXCEPT !.scope = scope,
                        !.fetched = FetchStatus(c.cap, fetched)]
    IN IF w = "raise"
       THEN [rec |-> [c1 EXCEPT !.pc = "done", !.res = "notfound",
                                !.canon = path, !.authz = "deny"],
             fs |-> f]
       ELSE IF w = "false"
       THEN [rec |-> [c1 EXCEPT !.pc = "done", !.res = "outside",
                                !.canon = path, !.authz = "deny"],
             fs |-> f]
       ELSE Perform(f, [c1 EXCEPT !.authz = "allow"], path)

\* the tool from the return of validate_path on: its result, or the next
\* suspension
AfterValidate(f, c, live, fetched) ==
    LET scope == get_combined_roots(f, c.snap, live, fetched)
        v == validate_path(f, c.raw, must_exist(c.tool),
                           expected_type(c.tool), scope)
        c1 == [c EXCEPT !.scope = scope,
                        !.fetched = FetchStatus(c.cap, fetched)]
    IN IF v.kind # "ok"
       THEN [rec |-> [c1 EXCEPT !.pc = "done", !.res = v.kind,
                                !.canon = v.path, !.authz = "deny"],
             fs |-> f]
       ELSE IF c.tool \in {"write_file", "create_directory"}
       THEN LET c2 == [c1 EXCEPT !.authz = "allow", !.stage = 2,
                                 !.snap = snapshot_roots(live),
                                 !.snapAt = live, !.mutated = FALSE]
            IN IF c.cap THEN [rec |-> [c2 EXCEPT !.pc = "fetch"], fs |-> f]
               ELSE AfterParent(f, c2, live, NoFetch)
       ELSE Perform(f, [c1 EXCEPT !.authz = "allow"], v.path)

\* a tool is called: get_combined_roots copies GLOBAL_ROOTS; without the
\* roots capability nothing suspends and the tool runs to its end
StartCall(tool, raw, cap) ==
    /\ call.pc # "fetch"
    /\ LET c == [Idle EXCEPT !.tool = tool, !.raw = raw, !.cap = cap,
                             !.stage = 1,
                             !.snap = snapshot_roots(GLOBAL_ROOTS),
                             !.snapAt = GLOBAL_ROOTS]
           r == AfterValidate(fs, c, GLOBAL_ROOTS, NoFetch)
       IN IF cap
          THEN call' = [c EXCEPT !.pc = "fetch"] /\ fs' = fs
          ELSE call' = r.rec /\ fs' = r.fs
    /\ adm' = NoAdm
    /\ UNCHANGED <<ALLOWED_ROOTS, GLOBAL_ROOTS, shared, CMD_LINE_ROOTS,
                 storeVars, auxVars>>

\* the client answers list_roots (or the request fails): the suspended
\* authorization resumes
FetchReturn(answer) ==
    /\ call.pc = "fetch"
    /\ call.tool \in AwaitTools
    /\ LET fetched == fetch_roots_from_client(fs, answer)
           r == IF call.stage = 1
                THEN AfterValidate(fs, call, GLOBAL_ROOTS, fetched)
                ELSE AfterParent(fs, call, GLOBAL_ROOTS, fetched)
       IN call' = r.rec /\ fs' = r.fs
    /\ adm' = NoAdm
    /\ UNCHANGED <<ALLOWED_ROOTS, GLOBAL_ROOTS, shared, CMD_LINE_ROOTS,
                 storeVars, auxVars>>


\* ------------------------------------------------------------------------
\* tools/filesystem.py: tools that call withinAllowed without await
\* ------------------------------------------------------------------------
\* withinAllowed(...) not awaited evaluates to a coroutine object
coroutine_object(w) == "coroutine"

\* bool(x) as the "if not x" tests take it: only False is falsy
truthy(x) == x # "false"

get_file_info(raw, birthtime) ==
    /\ call.pc # "fetch"
    /\ LET target == check_path(fs, raw, TRUE)
           w == coroutine_object(withinAllowed(fs, target.path, GLOBAL_ROOTS))
           c == [Idle EXCEPT !.tool = "get_file_info", !.raw = raw,
                             !.canon = target.path, !.pc = "done"]
       IN call' =
            IF ~target.ok THEN [c EXCEPT !.res = "notfound"]
            ELSE IF ~truthy(w) THEN [c EXCEPT !.res = "outside"]
            ELSE IF ~exists(fs, target.path) THEN [c EXCEPT !.res = "notfound"]
            ELSE IF ~birthtime
            THEN [c EXCEPT !.res = "error",
                           !.eff = {[op |-> "stat", path |-> target.path]}]
            ELSE [c EXCEPT !.res = "ok",
                           !.eff = {[op |-> "stat", path |-> target.path]}
                                   \cup (IF is_file(fs, target.path)
                                         THEN {[op |-> "read",
                                                path |-> target.path]}
                                         ELSE {[op |-> "list",
                                                path |-> target.path]})]
    /\ adm' = NoAdm
    /\ UNCHANGED <<fs, ALLOWED_ROOTS, GLOBAL_ROOTS, shared, CMD_LINE_ROOTS,
                 storeVars, auxVars>>

move_file(source, destination) ==
    /\ call.pc # "fetch"
    /\ LET source_path == check_path(fs, source, TRUE)
           dest_path == check_path(fs, destination, TRUE)
           ws == coroutine_object(withinAllowed(fs, source_path.path, GLOBAL_ROOTS))
           wd == coroutine_object(withinAllowed(fs, dest_path.path, GLOBAL_ROOTS))
           c == [Idle EXCEPT !.tool = "move_file", !.raw = source,
                             !.raws = <<source, destination>>,
                             !.canon = source_path.path, !.pc = "done"]
       IN /\ call' =
               IF ~source_path.ok \/ ~dest_path.ok THEN [c EXCEPT !.res = "notfound"]
               ELSE IF ~truthy(ws) \/ ~truthy(wd) THEN [c EXCEPT !.res = "outside"]
               ELSE IF ~exists(fs, source_path.path) THEN [c EXCEPT !.res = "notfound"]
               ELSE IF exists(fs, dest_path.path) THEN [c EXCEPT !.res = "exists"]
               ELSE [c EXCEPT !.res = "ok",
                              !.eff = {[op |-> "move", path |-> source_path.path],
                                       [op |-> "write", path |-> dest_path.path]}]
          /\ fs' = IF source_path.ok /\ dest_path.ok
                      /\ exists(fs, source_path.path)
                      /\ ~exists(fs, dest_path.path)
                      /\ source_path.path \in DOMAIN fs
                      /\ dest_path.path \in DOMAIN fs
                   THEN [fs EXCEPT ![dest_path.path] = fs[source_path.path],
                                   ![source_path.path] = "none"]
                   ELSE fs
    /\ adm' = NoAdm
    /\ UNCHANGED <<ALLOWED_ROOTS, GLOBAL_ROOTS, shared, CMD_LINE_ROOTS,
                 storeVars, auxVars>>

\* one round of the loop of read_multiple_files: the read it performs
ReadOne(f, file_path) ==
    LET target == check_path(f, file_path, TRUE)
        w == coroutine_object(withinAllowed(f, target.path, GLOBAL_ROOTS))
    IN IF ~target.ok THEN {}
       ELSE IF ~truthy(w) THEN {}
       ELSE IF ~is_file(f, target.path) THEN {}
       ELSE {[op |-> "read", path |-> target.path]}

read_multiple_files(paths) ==
    /\ call.pc # "fetch"
    /\ call' = [Idle EXCEPT !.tool = "read_multiple_files",
                            !.raw = IF paths = <<>> THEN <<>> ELSE paths[1],
                            !.raws = paths, !.pc = "done",
                            !.res = IF paths = <<>> THEN "error" ELSE "ok",
                            !.eff = UNION {ReadOne(fs, paths[i]) :
                                              i \in 1..Len(paths)}]
    /\ adm' = NoAdm
    /\ UNCHANGED <<fs, ALLOWED_ROOTS, GLOBAL_ROOTS, shared, CMD_LINE_ROOTS,
                 storeVars, auxVars>>

\* ------------------------------------------------------------------------
\* tools/server_management.py: administrative operations on the registry
\* ------------------------------------------------------------------------
\* the list dependencies.get_combined_roots reads, after the registry became r
GlobalAfter(r) == IF shared THEN r ELSE GLOBAL_ROOTS

\* a registry write: a suspended authorization keeps its own copy; the
\* history flag records that the registry changed under it
Mutate(r) ==
    /\ ALLOWED_ROOTS' = r
    /\ GLOBAL_ROOTS' = GlobalAfter(r)
    /\ call' = IF call.pc # "fetch" THEN Idle
               ELSE IF GlobalAfter(r) # GLOBAL_ROOTS
               THEN [call EXCEPT !.mutated = TRUE] ELSE call
    /\ UNCHANGED <<fs, shared, CMD_LINE_ROOTS,
                 storeVars, auxVars>>

AddRootResultAppend(f, roots, path) ==
    LET path_obj == check_path(f, path, TRUE)
    IN IF ~path_obj.ok THEN [res |-> "error", roots |-> roots]
       ELSE IF ~is_dir(f, path_obj.path) THEN [res |-> "error", roots |-> roots]
       ELSE [res |-> "added", roots |-> Append(roots, path_obj.path)]

AddRootResult(f, roots, path) ==
    LET path_obj == check_path(f, path, TRUE)
    IN IF ~path_obj.ok THEN [res |-> "error", roots |-> roots]
       ELSE IF ~is_dir(f, path_obj.path) THEN [res |-> "error", roots |-> roots]
       ELSE IF path_obj.path \notin Range(roots)
       THEN [res |-> "added", roots |-> Append(roots, path_obj.path)]
       ELSE [res |-> "already", roots |-> roots]

add_allowed_root(path) ==
    LET r == AddRootResult(fs, ALLOWED_ROOTS, path)
    IN /\ Len(r.roots) <= MaxRoots
       /\ adm' = [op |-> "add_allowed_root", res |-> r.res]
       /\ Mutate(r.roots)

\* the loop of update_roots over newroots: the list built, or the error
\* return at the first path that is missing or not a directory
RECURSIVE CollectRoots(_, _, _)
CollectRoots(f, newroots, new_roots) ==
    IF newroots = <<>> THEN [ok |-> TRUE, roots |-> new_roots]
    ELSE LET path_obj == check_path(f, Head(newroots), TRUE)
         IN IF path_obj.ok /\ is_dir(f, path_obj.path)
            THEN CollectRoots(f, Tail(newroots),
                              Append(new_roots, path_obj.path))
            ELSE [ok |-> FALSE, roots |-> new_roots]

UpdateRootsResult(f, roots, newroots) ==
    LET c == CollectRoots(f, newroots, <<>>)
    IN IF ~c.ok THEN [res |-> "error", roots |-> roots]
       ELSE IF c.roots = <<>> THEN [res |-> "error", roots |-> roots]
       ELSE [res |-> "updated", roots |-> c.roots]

update_roots(newroots) ==
    LET r == UpdateRootsResult(fs, ALLOWED_ROOTS, newroots)
    IN /\ adm' = [op |-> "update_roots", res |-> r.res]
       /\ Mutate(r.roots)

RemoveRootResult(f, roots, root) ==
    LET path_obj == check_path(f, root, TRUE)
    IN IF ~path_obj.ok THEN [res |-> "error", roots |-> roots]
       ELSE IF ~is_dir(f, path_obj.path) THEN [res |-> "error", roots |-> roots]
       ELSE IF path_obj.path \notin Range(roots)
       THEN [res |-> "notfound", roots |-> roots]
       ELSE [res |-> "removed", roots |-> RemoveFirst(roots, path_obj.path)]

remove_root(root) ==
    LET r == RemoveRootResult(fs, ALLOWED_ROOTS, root)
    IN /\ adm' = [op |-> "remove_root", res |-> r.res]
       /\ Mutate(r.roots)

\* ------------------------------------------------------------------------
\* The modular server
\* ------------------------------------------------------------------------
\* registries the server is started with
StartRoots == {<<>>, <<pData>>}

InitMod ==
    /\ fs = InitFs
    /\ ALLOWED_ROOTS \in StartRoots
    /\ GLOBAL_ROOTS = ALLOWED_ROOTS
    /\ shared \in BOOLEAN
    /\ CMD_LINE_ROOTS = <<>>
    /\ call = Idle
    /\ adm = NoAdm
    /\ StoreUnused
    /\ NoAux

NextMod ==
    \/ \E tool \in AwaitTools, cap \in BOOLEAN :
          \E raw \in ToolInputs(tool) : StartCall(tool, raw, cap)
    \/ \E answer \in ClientAnswers : FetchReturn(answer)
    \/ \E raw \in {pDataTxt, pEtcPasswd, pEtc, pEtcNew}, birthtime \in BOOLEAN :
          get_file_info(raw, birthtime)
    \/ \E source \in {pDataTxt, pEtcPasswd, pEtcNew},
          destination \in {pDataNew, pData2Txt} :
          move_file(source, destination)
    \/ \E paths \in {<<>>, <<pDataTxt>>, <<pEtcPasswd>>, <<pEtcNew>>,
                      <<pDataTxt, pEtcPasswd>>} :
          read_multiple_files(paths)
    \/ \E path \in AdminArgs : add_allowed_root(path)
    \/ \E newroots \in ListArgs : update_roots(newroots)
    \/ \E root \in AdminArgs : remove_root(root)

SpecMod == InitMod /\ [][NextMod]_vars


\* ------------------------------------------------------------------------
\* tools/filesystem.py: delete_file and delete_directory
\* ------------------------------------------------------------------------
DeleteTools == {"delete_file", "delete_directory"}

\* what the client answers to ctx.elicit; "raise" is a failed request
ElicitAnswers == {"accept", "decline", "raise"}

\* the tree after unlink / shutil.rmtree of path
FsRemoved(f, path) ==
    [p \in DOMAIN f |-> IF IsPrefixOf(path, p) THEN "none" ELSE f[p]]

\* the removal both tools perform once it is decided
Removal(f, c, path, res) ==
    [rec |-> [c EXCEPT !.pc = "done", !.res = res, !.canon = path,
                       !.eff = {[op |-> "delete", path |-> path]}],
     fs |-> FsRemoved(f, path)]

\* delete_file / delete_directory from the return of validate_path on;
\* the object ctx.elicit returns is truthy whatever the user chose
AfterDelete(f, c, live, fetched, supports_elicitation, user_agreed) ==
    LET scope == get_combined_roots(f, c.snap, live, fetched)
        v == validate_path(f, c.raw, TRUE,
                           IF c.tool = "delete_file" THEN "file" ELSE "dir",
                           scope)
        c1 == [c EXCEPT !.scope = scope,
                        !.fetched = FetchStatus(c.cap, fetched)]
        c2 == [c1 EXCEPT !.authz = "allow"]
    IN IF v.kind # "ok"
       THEN [rec |-> [c1 EXCEPT !.pc = "done", !.res = v.kind,
                                !.canon = v.path, !.authz = "deny"],
             fs |-> f]
       ELSE IF ~c.confirm
       THEN IF supports_elicitation /\ user_agreed # "raise"
                  /\ truthy(user_agreed)
            THEN Removal(f, c2, v.path, "elicited")
            ELSE [rec |-> [c2 EXCEPT !.pc = "done", !.res = "confirm",
                                     !.canon = v.path],
                  fs |-> f]
       ELSE IF c.tool = "delete_directory"
       THEN Removal(f, c2, v.path, "ok")
       ELSE [rec |-> [c2 EXCEPT !.pc = "done", !.res = "None",
                                !.canon = v.path],
             fs |-> f]

delete_start(tool, raw, confirm, cap, supports_elicitation, user_agreed) ==
    /\ call.pc # "fetch"
    /\ LET c == [Idle EXCEPT !.tool = tool, !.raw = raw, !.cap = cap,
                             !.confirm = confirm, !.stage = 1,
                             !.snap = snapshot_roots(GLOBAL_ROOTS),
                             !.snapAt = GLOBAL_ROOTS]
           r == AfterDelete(fs, c, GLOBAL_ROOTS, NoFetch,
                            supports_elicitation, user_agreed)
       IN IF cap
          THEN call' = [c EXCEPT !.pc = "fetch"] /\ fs' = fs
          ELSE call' = r.rec /\ fs' = r.fs
    /\ adm' = NoAdm
    /\ UNCHANGED <<ALLOWED_ROOTS, GLOBAL_ROOTS, shared, CMD_LINE_ROOTS,
                 storeVars, auxVars>>

delete_return(answer, supports_elicitation, user_agreed) ==
    /\ call.pc = "fetch"
    /\ call.tool \in DeleteTools
    /\ LET r == AfterDelete(fs, call, GLOBAL_ROOTS,
                            fetch_roots_from_client(fs, answer),
                            supports_elicitation, user_agreed)
       IN call' = r.rec /\ fs' = r.fs
    /\ adm' = NoAdm
    /\ UNCHANGED <<ALLOWED_ROOTS, GLOBAL_ROOTS, shared, CMD_LINE_ROOTS,
                 storeVars, auxVars>>

DeleteInputs(tool) ==
    IF tool = "delete_file" THEN {pDataTxt, pEtcPasswd, pDataNew, pData}
    ELSE {pData, pEtc, pDataTxt}

NextDelete ==
    \/ \E tool \in DeleteTools, confirm \in BOOLEAN, cap \in BOOLEAN,
          supports_elicitation \in BOOLEAN, user_agreed \in ElicitAnswers :
          \E raw \in DeleteInputs(tool) :
              delete_start(tool, raw, confirm, cap, supports_elicitation,
                           user_agreed)
    \/ \E answer \in ClientAnswers, supports_elicitation \in BOOLEAN,
          user_agreed \in ElicitAnswers :
          delete_return(answer, supports_elicitation, user_agreed)

SpecDelete == InitMod /\ [][NextDelete]_vars


\* ------------------------------------------------------------------------
\* main.py (monolithic server) and tests/systemmonitoring.py
\* ------------------------------------------------------------------------
SENSITIVE_EXTENSIONS ==
    {<<".", "pem">>, <<".", "key">>, <<".", "shadow">>, <<".", "env">>,
     <<".", "id_rsa">>}

\* main.uri_to_path for a file:// URI, Path(uri).resolve() for any other:
\* the URI text taken as a path relative to the working directory
main_root_path(root) ==
    IF root.scheme = "file" THEN resolve(root.path)
    ELSE resolve(Cwd \o <<<<root.scheme, ":">>>> \o root.path)

\* the loop of send_roots_list_request: "uri" is only read from a dict, a
\* root without uri is skipped
RECURSIVE ConvertRoots(_)
ConvertRoots(root_objects) ==
    IF root_objects = <<>> THEN <<>>
    ELSE LET root == Head(root_objects)
         IN IF root.form # "dict" THEN ConvertRoots(Tail(root_objects))
            ELSE <<main_root_path(root)>> \o ConvertRoots(Tail(root_objects))

send_roots_list_request(answer) ==
    IF answer.st # "roots" THEN <<>> ELSE ConvertRoots(answer.roots)

\* get_current_roots_async from the copy of CMD_LINE_ROOTS on
get_current_roots_async(combined_roots, cap, client_roots) ==
    LET unique_roots == Dedup(IF cap THEN combined_roots \o client_roots
                              ELSE combined_roots)
    IN IF unique_roots # <<>> THEN unique_roots ELSE <<Cwd>>

main_withinAllowed(path, current_roots) ==
    IF current_roots = <<>> THEN FALSE
    ELSE \E i \in 1..Len(current_roots) :
            relative_to(resolve(path), resolve(current_roots[i]))

\* systemmonitoring.validate_path, wired by main.py to norm_path and
\* main.withinAllowed
sm_validate_path(path_str, current_roots) ==
    LET target_path == norm_path(path_str)
    IN IF ~main_withinAllowed(target_path, current_roots)
       THEN [kind |-> "outside", path |-> target_path]
       ELSE IF suffix(target_path) \in SENSITIVE_EXTENSIONS
       THEN [kind |-> "sensitive", path |-> target_path]
       ELSE [kind |-> "ok", path |-> target_path]

\* the causes for which systemmonitoring.validate_path raises, and the
\* class of the exception it raises for each
sm_DenialCauses == {"syntax", "outside", "sensitive"}

sm_ExceptionClass(cause) ==
    IF cause = "syntax" THEN "ValueError"
    ELSE IF cause = "outside" THEN "PermissionError"
    ELSE IF cause = "sensitive" THEN "PermissionError"
    ELSE "none"

MainTools == {"main_read_file", "main_write_file", "read_log_file"}

MainInputs(tool) ==
    IF tool = "main_write_file" THEN {pDataTxt, pDataNew, pData}
    ELSE IF tool = "read_log_file"
    THEN {pDataTxt, pDataPem, pDataNew, pEtcPasswd, pDataEnv, pDataUpperPem,
          pData}
    ELSE {pDataTxt, pData2Txt, pEtcPasswd, rLinkPasswd, rInTxt, pDataNew}

Done(c, res, path, authz, effects) ==
    [c EXCEPT !.pc = "done", !.res = res, !.canon = path, !.authz = authz,
              !.eff = effects]

\* read_file, write_file (main.py) and read_log_file from the return of
\* get_current_roots_async on
AfterMain(f, c, client_roots) ==
    LET scope == get_current_roots_async(c.snap, c.cap, client_roots)
        target_path == norm_path(c.raw)
        c1 == [c EXCEPT !.scope = scope,
                        !.fetched = IF ~c.cap THEN "nocap"
                                    ELSE IF client_roots = <<>> THEN "failed"
                                    ELSE "roots"]
        v == sm_validate_path(c.raw, scope)
    IN IF c.tool = "read_log_file"
       THEN IF v.kind # "ok"
            THEN [rec |-> Done(c1, v.kind, v.path, "deny", NoEffects), fs |-> f]
            ELSE IF ~exists(f, v.path)
            THEN [rec |-> Done(c1, "notfound", v.path, "allow", NoEffects),
                  fs |-> f]
            ELSE IF ~is_file(f, v.path)
            THEN [rec |-> Done(c1, "wrongtype", v.path, "allow", NoEffects),
                  fs |-> f]
            ELSE [rec |-> Done(c1, "ok", v.path, "allow",
                               {[op |-> "read", path |-> v.path]}),
                  fs |-> f]
       ELSE IF ~main_withinAllowed(target_path, scope)
       THEN [rec |-> Done(c1, "outside", target_path, "deny", NoEffects),
             fs |-> f]
       ELSE IF c.tool = "main_read_file"
       THEN IF ~exists(f, target_path)
            THEN [rec |-> Done(c1, "notfound", target_path, "allow", NoEffects),
                  fs |-> f]
            ELSE IF ~is_file(f, target_path)
            THEN [rec |-> Done(c1, "wrongtype", target_path, "allow", NoEffects),
                  fs |-> f]
            ELSE [rec |-> Done(c1, "ok", target_path, "allow",
                               {[op |-> "read", path |-> target_path]}),
                  fs |-> f]
       ELSE IF is_dir(f, target_path)
       THEN [rec |-> Done(c1, "error", target_path, "allow", NoEffects),
             fs |-> f]
       ELSE [rec |-> Done(c1, "ok", target_path, "allow",
                          {[op |-> "write", path |-> target_path]}),
             fs |-> FsAfter(f, "write_file", target_path)]

StartMain(tool, raw, cap) ==
    /\ call.pc # "fetch"
    /\ LET c == [Idle EXCEPT !.tool = tool, !.raw = raw, !.cap = cap,
                             !.stage = 1, !.snap = CMD_LINE_ROOTS,
                             !.snapAt = CMD_LINE_ROOTS]
           r == AfterMain(fs, c, <<>>)
       IN IF cap
          THEN call' = [c EXCEPT !.pc = "fetch"] /\ fs' = fs
          ELSE call' = r.rec /\ fs' = r.fs
    /\ adm' = NoAdm
    /\ UNCHANGED <<ALLOWED_ROOTS, GLOBAL_ROOTS, shared, CMD_LINE_ROOTS,
                 storeVars, auxVars>>

MainFetchReturn(answer) ==
    /\ call.pc = "fetch"
    /\ call.tool \in MainTools
    /\ LET r == AfterMain(fs, call, send_roots_list_request(answer))
       IN call' = r.rec /\ fs' = r.fs
    /\ adm' = NoAdm
    /\ UNCHANGED <<ALLOWED_ROOTS, GLOBAL_ROOTS, shared, CMD_LINE_ROOTS,
                 storeVars, auxVars>>

\* main.get_file_info: withinAllowed is called without await
main_get_file_info(raw) ==
    /\ call.pc # "fetch"
    /\ LET target_path == norm_path(raw)
           w == coroutine_object(main_withinAllowed(target_path, CMD_LINE_ROOTS))
           c == [Idle EXCEPT !.tool = "main_get_file_info", !.raw = raw,
                             !.canon = target_path, !.pc = "done"]
       IN call' =
            IF ~truthy(w) THEN [c EXCEPT !.res = "outside"]
            ELSE IF ~exists(fs, target_path) THEN [c EXCEPT !.res = "notfound"]
            ELSE [c EXCEPT !.res = "ok",
                           !.eff = {[op |-> "stat", path |-> target_path]}
                                   \cup (IF is_file(fs, target_path)
                                         THEN {[op |-> "read",
                                                path |-> target_path]}
                                         ELSE {[op |-> "list",
                                                path |-> target_path]})]
    /\ adm' = NoAdm
    /\ UNCHANGED <<fs, ALLOWED_ROOTS, GLOBAL_ROOTS, shared, CMD_LINE_ROOTS,
                 storeVars, auxVars>>

\* a write of main.CMD_LINE_ROOTS
MainMutate(r) ==
    /\ CMD_LINE_ROOTS' = r
    /\ call' = IF call.pc # "fetch" THEN Idle
               ELSE IF r # CMD_LINE_ROOTS
               THEN [call EXCEPT !.mutated = TRUE] ELSE call
    /\ UNCHANGED <<fs, ALLOWED_ROOTS, GLOBAL_ROOTS, shared,
                 storeVars, auxVars>>

\* refresh_roots: the tool asks the client for its roots ...
refresh_roots_start(cap) ==
    /\ call.pc # "fetch"
    /\ call' = IF cap
               THEN [Idle EXCEPT !.tool = "refresh_roots", !.cap = cap,
                                 !.stage = 1, !.pc = "fetch"]
               ELSE [Idle EXCEPT !.tool = "refresh_roots", !.cap = cap,
                                 !.pc = "done", !.res = "nocap"]
    /\ adm' = NoAdm
    /\ UNCHANGED <<fs, ALLOWED_ROOTS, GLOBAL_ROOTS, shared, CMD_LINE_ROOTS,
                 storeVars, auxVars>>

RefreshResult(roots, client_roots) ==
    IF client_roots # <<>> THEN Dedup(roots \o client_roots) ELSE roots

\* ... and extends CMD_LINE_ROOTS with what the client returned
refresh_roots_return(answer) ==
    /\ call.pc = "fetch"
    /\ call.tool = "refresh_roots"
    /\ LET client_roots == send_roots_list_request(answer)
           r == RefreshResult(CMD_LINE_ROOTS, client_roots)
       IN /\ Len(r) <= MaxRoots
          /\ CMD_LINE_ROOTS' = r
          /\ call' = [call EXCEPT !.pc = "done",
                                  !.res = IF client_roots # <<>>
                                          THEN "refreshed" ELSE "noroots",
                                  !.scope = client_roots]
    /\ adm' = NoAdm
    /\ UNCHANGED <<fs, ALLOWED_ROOTS, GLOBAL_ROOTS, shared,
                 storeVars, auxVars>>

MainUpdateRootsResult(f, roots, newroots) ==
    LET c == CollectRoots(f, newroots, <<>>)
    IN IF ~c.ok THEN [res |-> "error", roots |-> roots]
       ELSE IF c.roots = <<>> THEN [res |-> "error", roots |-> roots]
       ELSE [res |-> "updated", roots |-> c.roots]

main_update_roots(newroots) ==
    LET r == MainUpdateRootsResult(fs, CMD_LINE_ROOTS, newroots)
    IN /\ adm' = [op |-> "main_update_roots", res |-> r.res]
       /\ MainMutate(r.roots)

\* the loop of main.add_roots: every valid new path is appended to
\* CMD_LINE_ROOTS at once; the first invalid path returns the error
RECURSIVE AddRootsLoop(_, _, _, _)
AddRootsLoop(f, roots, newroots, added) ==
    IF newroots = <<>>
    THEN [res |-> IF added = 0 THEN "nonew" ELSE "added", roots |-> roots]
    ELSE LET path_obj == norm_path(Head(newroots))
         IN IF exists(f, path_obj) /\ is_dir(f, path_obj)
            THEN IF path_obj \notin Range(roots)
                 THEN AddRootsLoop(f, Append(roots, path_obj),
                                   Tail(newroots), added + 1)
                 ELSE AddRootsLoop(f, roots, Tail(newroots), added)
            ELSE [res |-> "error", roots |-> roots]

main_add_roots(newroots) ==
    LET r == AddRootsLoop(fs, CMD_LINE_ROOTS, newroots, 0)
    IN /\ Len(r.roots) <= MaxRoots
       /\ adm' = [op |-> "main_add_roots", res |-> r.res]
       /\ MainMutate(r.roots)

InitMain ==
    /\ fs = InitFs
    /\ ALLOWED_ROOTS = <<>>
    /\ GLOBAL_ROOTS = <<>>
    /\ shared = FALSE
    /\ CMD_LINE_ROOTS \in StartRoots
    /\ call = Idle
    /\ adm = NoAdm
    /\ StoreUnused
    /\ NoAux

NextMain ==
    \/ \E tool \in MainTools, cap \in BOOLEAN :
          \E raw \in MainInputs(tool) : StartMain(tool, raw, cap)
    \/ \E answer \in ClientAnswers : MainFetchReturn(answer)
    \/ \E raw \in {pDataTxt, pEtcPasswd, pEtcNew} : main_get_file_info(raw)
    \/ \E cap \in BOOLEAN : refresh_roots_start(cap)
    \/ \E answer \in ClientAnswers : refresh_roots_return(answer)
    \/ \E newroots \in ListArgs : main_update_roots(newroots)
    \/ \E newroots \in ListArgs : main_add_roots(newroots)

SpecMain == InitMain /\ [][NextMain]_vars


\* ------------------------------------------------------------------------
\* tests/systemmonitoring.py: the tail of read_log_file
\* ------------------------------------------------------------------------
\* a text is a sequence of characters; LF is the newline read_text yields for
\* every line ending, FF a form feed, which str.splitlines also splits at
LF == "LF"
FF == "FF"
LineBoundaries == {LF, FF}
Chars == {"a", "b", LF, FF}

Texts == UNION {[1..n -> Chars] : n \in 0..MaxLen}
LineCounts == (-2)..(MaxLen + 1)

\* str.splitlines(): a trailing boundary opens no further line
RECURSIVE SplitFrom(_, _)
SplitFrom(s, cur) ==
    IF s = <<>> THEN (IF cur = <<>> THEN <<>> ELSE <<cur>>)
    ELSE IF Head(s) \in LineBoundaries
    THEN <<cur>> \o SplitFrom(Tail(s), <<>>)
    ELSE SplitFrom(Tail(s), Append(cur, Head(s)))

splitlines(text) == SplitFrom(text, <<>>)

\* "\n".join(lines)
RECURSIVE join(_)
join(lines) ==
    IF lines = <<>> THEN <<>>
    ELSE IF Len(lines) = 1 THEN lines[1]
    ELSE lines[1] \o <<LF>> \o join(Tail(lines))

\* all_lines[:lines]
first_lines(all_lines, lines) ==
    SubSeq(all_lines, 1, IF lines > Len(all_lines) THEN Len(all_lines) ELSE lines)

\* all_lines[-lines:] for lines > 0: a start before the list is the start
last_lines(all_lines, lines) ==
    LET start == IF lines > Len(all_lines) THEN 0 ELSE Len(all_lines) - lines
    IN SubSeq(all_lines, start + 1, Len(all_lines))

\* read_log_file from the return of get_current_roots_async on;
\* read_text returns content
AfterLog(f, c, client_roots) ==
    LET r == AfterMain(f, c, client_roots)
        all_lines == splitlines(content)
    IN IF r.rec.res # "ok" THEN r
       ELSE IF c.lines < 0
       THEN [r EXCEPT !.rec.res = "negative"]
       ELSE [r EXCEPT !.rec.out = join(IF c.lines > 0
                                       THEN last_lines(all_lines, c.lines)
                                       ELSE <<>>)]

read_log_file(raw, lines, cap) ==
    /\ call.pc # "fetch"
    /\ LET c == [Idle EXCEPT !.tool = "read_log_file", !.raw = raw,
                             !.cap = cap, !.lines = lines, !.stage = 1,
                             !.snap = CMD_LINE_ROOTS,
                             !.snapAt = CMD_LINE_ROOTS]
       IN call' = IF cap THEN [c EXCEPT !.pc = "fetch"]
                  ELSE AfterLog(fs, c, <<>>).rec
    /\ adm' = NoAdm
    /\ UNCHANGED <<fs, ALLOWED_ROOTS, GLOBAL_ROOTS, shared, CMD_LINE_ROOTS,
                 storeVars, auxVars>>

read_log_file_return(answer) ==
    /\ call.pc = "fetch"
    /\ call.tool = "read_log_file"
    /\ call' = AfterLog(fs, call, send_roots_list_request(answer)).rec
    /\ adm' = NoAdm
    /\ UNCHANGED <<fs, ALLOWED_ROOTS, GLOBAL_ROOTS, shared, CMD_LINE_ROOTS,
                 storeVars, auxVars>>

LogInputs == {pDataTxt, pDataNew, pData, pEtcPasswd}

InitLog ==
    /\ fs = InitFs
    /\ ALLOWED_ROOTS = <<>>
    /\ GLOBAL_ROOTS = <<>>
    /\ shared = FALSE
    /\ CMD_LINE_ROOTS = <<pData>>
    /\ call = Idle
    /\ adm = NoAdm
    /\ StoreUnused
    /\ content \in Texts
    /\ writers = [w \in Writers |-> IdleWriter]

NextLog ==
    \/ \E raw \in LogInputs, lines \in LineCounts, cap \in BOOLEAN :
          read_log_file(raw, lines, cap)
    \/ \E answer \in ClientAnswers : read_log_file_return(answer)

SpecLog == InitLog /\ [][NextLog]_vars


\* ------------------------------------------------------------------------
\* Operations of a store instance
\* ------------------------------------------------------------------------
\* get / put / delete of the instance: the backend, or the wrapper around it
instance_get(st, via, key, collection) ==
    IF via = "bare" THEN store_get(st, key, collection)
    ELSE Fernet_get(st, via, key, collection)

instance_put(st, via, key, value, collection) ==
    IF via = "bare"
    THEN LET r == store_put(st, key, value, collection)
         IN [st |-> r.st, res |-> r.res, inner |-> value]
    ELSE Fernet_put(st, via, key, value, collection)

instance_delete(st, via, key, collection) ==
    IF via = "bare" THEN store_delete(st, key, collection)
    ELSE Fernet_delete(st, via, key, collection)

put(via, key, value, collection) ==
    LET r == instance_put(storage, via, key, value, collection)
    IN /\ storage.backend # "none"
       /\ Records(r.st) <= MaxRecords
       /\ storage' = r.st
       /\ obs' = [op |-> "put", via |-> via, key |-> key,
                  coll |-> collection, val |-> value, res |-> r.res,
                  inner |-> r.inner]
       /\ UNCHANGED <<pathVars, auth, auxVars>>

get(via, key, collection) ==
    /\ storage.backend # "none"
    /\ obs' = [op |-> "get", via |-> via, key |-> key, coll |-> collection,
               val |-> None,
               res |-> instance_get(storage, via, key, collection),
               inner |-> None]
    /\ UNCHANGED <<storage, pathVars, auth, auxVars>>

delete(via, key, collection) ==
    LET r == instance_delete(storage, via, key, collection)
    IN /\ storage.backend # "none"
       /\ storage' = r.st
       /\ obs' = [op |-> "delete", via |-> via, key |-> key,
                  coll |-> collection, val |-> None, res |-> r.res,
                  inner |-> None]
       /\ UNCHANGED <<pathVars, auth, auxVars>>

\* the process ends after a put and new instances are built on the same
\* path, host and key: what a MemoryStore held is gone
restart ==
    /\ storage.backend # "none"
    /\ obs.op = "put"
    /\ obs.via \in FernetKeys
    /\ storage' = [storage EXCEPT !.table = EmptyTable]
    /\ obs' = [obs EXCEPT !.op = "restart"]
    /\ UNCHANGED <<pathVars, auth, auxVars>>

\* Path(".fastmcp_storage").mkdir(exist_ok=True) before
\* DiskStore(".fastmcp_storage") in get_auth_provider
make_storage_dir ==
    /\ storage.backend = "DiskStore"
    /\ storage.kind = "missing"
    /\ obs.op = "none"
    /\ storage' = [storage EXCEPT !.kind = "dir"]
    /\ UNCHANGED <<obs, pathVars, auth, auxVars>>

NoPaths ==
    /\ fs = InitFs
    /\ ALLOWED_ROOTS = <<>>
    /\ GLOBAL_ROOTS = <<>>
    /\ shared = FALSE
    /\ CMD_LINE_ROOTS = <<>>
    /\ call = Idle
    /\ adm = NoAdm

InitStore ==
    /\ NoPaths
    /\ \E b \in Backends, u \in BOOLEAN :
          /\ (b # "RedisStore") => u
          /\ storage = [NoStorage EXCEPT !.backend = b, !.up = u]
    /\ obs = NoObs
    /\ auth = NoAuth
    /\ NoAux

NextStore ==
    \/ \E i \in PutInputs, a \in Addresses : put(i.via, a.key, i.value, a.coll)
    \/ \E via \in Vias, a \in Addresses : get(via, a.key, a.coll)
    \/ \E via \in {"bare", "K1"}, a \in Addresses : delete(via, a.key, a.coll)
    \/ restart
    \/ make_storage_dir

SpecStore == InitStore /\ [][NextStore]_vars


\* ------------------------------------------------------------------------
\* utilities/storage.py: two callers of one DiskStore file
\* ------------------------------------------------------------------------
\* the records and the values the two callers put
DiskAddresses == {<<coll_or_default(NoCollection), kC>>,
                  <<coll_or_default(cA), kBC>>}
DiskValues == {vToken, vDict}

\* the document a put writes back: only the new record
put_data_alone(data, a, value) == Updated(EmptyTable, a, json_dumps(value))

\* the document a put writes back: what the caller loaded, with the record
put_data(data, a, value) == Updated(data, a, json_dumps(value))

\* the first half of DiskStore.put / delete: data = self._load()
writer_load(w, op, a, value) ==
    /\ storage.backend = "DiskStore"
    /\ writers[w].pc # "loaded"
    /\ LET data == DiskStore_load(storage)
       IN writers' =
            [writers EXCEPT ![w] =
                IF ~data.ok
                THEN [IdleWriter EXCEPT !.pc = "raised", !.op = op, !.a = a]
                ELSE [pc |-> "loaded", op |-> op, a |-> a,
                      value |-> IF op = "put" THEN value ELSE None,
                      data |-> data.doc, stale |-> FALSE]]
    /\ UNCHANGED <<storage, obs, auth, content, pathVars>>

\* the second half: the record is set or removed in what was loaded and
\* _save writes that document; a delete of an absent record saves nothing
writer_save(w) ==
    /\ writers[w].pc = "loaded"
    /\ LET me == writers[w]
           saves == me.op = "put" \/ me.a \in DOMAIN me.data
           data == IF me.op = "put" THEN put_data(me.data, me.a, me.value)
                   ELSE Removed(me.data, me.a)
       IN /\ storage' = IF saves THEN DiskStore_save(storage, data)
                        ELSE storage
          /\ writers' =
                [v \in Writers |->
                    IF v = w
                    THEN [me EXCEPT !.pc = "returned", !.data = EmptyTable]
                    ELSE IF saves /\ writers[v].pc = "loaded"
                    THEN [writers[v] EXCEPT !.stale = TRUE]
                    ELSE writers[v]]
    /\ UNCHANGED <<obs, auth, content, pathVars>>

InitDisk ==
    /\ NoPaths
    /\ storage = [NoStorage EXCEPT !.backend = "DiskStore"]
    /\ obs = NoObs
    /\ auth = NoAuth
    /\ NoAux

NextDisk ==
    \/ \E w \in Writers, op \in {"put", "delete"}, a \in DiskAddresses,
          value \in DiskValues : writer_load(w, op, a, value)
    \/ \E w \in Writers : writer_save(w)

SpecDisk == InitDisk /\ [][NextDisk]_vars


\* ------------------------------------------------------------------------
\* auth/auth.py: get_auth_provider
\* ------------------------------------------------------------------------
\* Fernet(key): a key that is not 32 url-safe base64 bytes raises
\* ValueError, an argument that is neither str nor bytes raises TypeError
Fernet_init(key) ==
    IF key = "valid" THEN "ok"
    ELSE IF key = "Fernet" THEN "TypeError"
    ELSE "ValueError"

\* FernetEncryptionWrapper.__init__: Fernet(fernet_key) on the argument
FernetEncryptionWrapper_init(fernet_key) == Fernet_init(fernet_key)

\* RedisStore.__init__: raises only when the redis library is missing;
\* redis.Redis(...) opens no connection
RedisStore_init(installed, reachable) ==
    IF installed THEN "ok" ELSE "ImportError"

\* Path(".fastmcp_storage").mkdir(exist_ok=True)
mkdir_exist_ok(kind) ==
    IF kind = "file" THEN [raised |-> "FileExistsError", kind |-> kind]
    ELSE [raised |-> "none", kind |-> "dir"]

NoProvider(cfg, raised, kind) ==
    [provider |-> FALSE, raised |-> raised, backend |-> "none",
     wrapped |-> FALSE, jwt |-> "none", kind |-> kind]

\* the end of the persistent branch: the wrapper around backend, then the
\* provider
WrapBackendBare(cfg, backend, kind) ==
    [provider |-> TRUE, raised |-> "none", backend |-> backend,
     wrapped |-> FALSE, jwt |-> "configured", kind |-> kind]

WrapBackend(cfg, backend, kind) ==
    LET w == FernetEncryptionWrapper_init("Fernet")
    IN [provider |-> w = "ok", raised |-> IF w = "ok" THEN "none" ELSE w,
        backend |-> backend, wrapped |-> w = "ok",
        jwt |-> IF w = "ok" THEN "configured" ELSE "none", kind |-> kind]

\* the Redis branch: the Disk store is the fallback when RedisStore(...)
\* raises
RedisBackend(cfg) ==
    IF RedisStore_init(cfg.redis_installed, cfg.redis_reachable) = "ok"
    THEN "RedisStore" ELSE "DiskStore"

get_auth_provider_result(cfg) ==
    LET has_keys == cfg.JWT_SIGNING_KEY # "none"
                        /\ cfg.STORAGE_ENCRYPTION_KEY # "none"
        should_persist == cfg.USE_PERSISTENT_STORAGE
    IN IF ~cfg.AUTH_ENABLED THEN NoProvider(cfg, "none", cfg.kind)
       ELSE IF ~cfg.CLIENT_ID THEN NoProvider(cfg, "none", cfg.kind)
       ELSE IF has_keys /\ should_persist
       THEN IF Fernet_init(cfg.STORAGE_ENCRYPTION_KEY) # "ok"
            THEN NoProvider(cfg, Fernet_init(cfg.STORAGE_ENCRYPTION_KEY),
                            cfg.kind)
            ELSE IF cfg.USE_REDIS
            THEN WrapBackend(cfg, RedisBackend(cfg), cfg.kind)
            ELSE LET d == mkdir_exist_ok(cfg.kind)
                 IN IF d.raised # "none"
                    THEN NoProvider(cfg, d.raised, d.kind)
                    ELSE WrapBackend(cfg, "DiskStore", d.kind)
       ELSE [provider |-> TRUE, raised |-> "none",
             backend |-> "MemoryStore", wrapped |-> FALSE,
             jwt |-> "random", kind |-> cfg.kind]

\* the configurations and environments the server is started in
Settings ==
    [AUTH_ENABLED : BOOLEAN, CLIENT_ID : BOOLEAN,
     JWT_SIGNING_KEY : {"none", "set"},
     STORAGE_ENCRYPTION_KEY : {"none", "valid", "invalid"},
     USE_PERSISTENT_STORAGE : BOOLEAN, USE_REDIS : BOOLEAN,
     redis_installed : BOOLEAN, redis_reachable : BOOLEAN,
     kind : {"missing", "file", "dir"}]

get_auth_provider ==
    /\ auth.pc = "start"
    /\ LET r == get_auth_provider_result(auth.cfg)
       IN /\ auth' = [pc |-> "done", cfg |-> auth.cfg, out |-> r]
          /\ storage' = [storage EXCEPT !.kind = r.kind]
    /\ UNCHANGED <<obs, pathVars, auxVars>>

InitAuth ==
    /\ NoPaths
    /\ obs = NoObs
    /\ \E cfg \in Settings :
          /\ auth = [pc |-> "start", cfg |-> cfg,
                     out |-> NoProvider(cfg, "none", cfg.kind)]
          /\ storage = [NoStorage EXCEPT !.kind = cfg.kind]
    /\ NoAux

NextAuth == get_auth_provider

SpecAuth == InitAuth /\ [][NextAuth]_vars


\* ------------------------------------------------------------------------
\* Properties
\* ------------------------------------------------------------------------
\* p equals a root of scope or lies below it by whole names
SegWithin(p, scope) ==
    \E i \in 1..Len(scope) :
        \E k \in 0..Len(p) : SubSeq(p, 1, k) = scope[i]

\* a call of a tool that awaits dependencies.validate_path has returned from
\* its first authorization
Validated == call.pc = "done" /\ call.tool \in AwaitTools /\ call.stage = 1

\* C1: validate_path / withinAllowed allow a path exactly when its canonical
\* form is a root of the effective scope or a descendant of one by whole
\* path segments: an allowed path is always contained, a path denied as
\* outside never is, and an existing path is denied as outside iff it is not
\* contained; a sibling sharing only a text prefix with a root is not allowed.
C1_SegmentContainment ==
    Validated =>
        /\ call.res = "ok" => SegWithin(call.canon, call.scope)
        /\ call.res = "outside" => ~SegWithin(call.canon, call.scope)
        /\ exists(fs, call.canon) =>
              (call.res = "outside" <=> ~SegWithin(call.canon, call.scope))

C1_Witness ==
    /\ Validated
    /\ call.raw = pData2Txt
    /\ call.scope = <<pData>>
    /\ call.res = "outside"

\* C2: the decision is taken on the resolved real path: a path through the
\* link /data/link -> /etc or through ".." out of the root leads to
\* /etc/passwd and is denied as outside when no root covers /etc, a path
\* through the link /in -> /data is accepted under the root /data, and no
\* path whose resolved form is outside the scope is ever allowed.
C2_ResolvedPathDecides ==
    Validated =>
        /\ call.raw \in {rLinkPasswd, rDotsPasswd} => call.canon = pEtcPasswd
        /\ call.raw = rInTxt => call.canon = pDataTxt
        /\ ~SegWithin(call.canon, call.scope) =>
              /\ call.res \in {"outside", "notfound"}
              /\ call.eff = NoEffects
              /\ exists(fs, call.canon) => call.res = "outside"
        /\ (call.raw = rInTxt /\ call.tool = "read_file"
               /\ pData \in Range(call.scope)) => call.res = "ok"

C2_Witness ==
    /\ Validated
    /\ call.raw = rLinkPasswd
    /\ pData \in Range(call.scope)
    /\ call.res = "outside"

\* C3: every path-authorization entry point denies a path whose canonical
\* extension is in the sensitive denylist, also inside an allowed root.
C3_SensitiveDenied ==
    (call.pc = "done" /\ call.tool \in AwaitTools \cup {"read_log_file"}
        /\ suffix(call.canon) \in SENSITIVE_EXTENSIONS)
    => call.res # "ok"

\* C4: a tool touches a path only after the authorization of that path was
\* evaluated and returned allow.
C4_EffectsAuthorized ==
    (call.pc = "done" /\ call.eff # NoEffects) => call.authz = "allow"

C6_ToolsLeaveRegistry ==
    [][adm'.op = "none" =>
          /\ ALLOWED_ROOTS' = ALLOWED_ROOTS
          /\ GLOBAL_ROOTS' = GLOBAL_ROOTS
          /\ CMD_LINE_ROOTS' = CMD_LINE_ROOTS]_vars

\* C7: validate_path(path, must_exist=False) returns the canonical path of a
\* path that does not exist yet and lies inside an allowed root, so
\* write_file and create_directory never fail on such a path.
C7_NewPathValidates ==
    (Validated /\ call.tool \in {"write_file", "create_directory"}
        /\ ~exists(fs, call.canon))
    => ~SegWithin(call.canon, call.scope)

\* C8: add_allowed_root never leaves a second entry for the root it adds: a
\* root that was absent has exactly one entry afterwards, an add of a root
\* already present changes nothing; remove_root of a root that is not in
\* the registry returns the not-found error and changes nothing.
C8_AddIdempotentRemoveAbsent ==
    [][\A p \in AdminArgs :
          LET r == resolve(expanduser(p))
          IN /\ (add_allowed_root(p) /\ adm'.res # "error") =>
                   /\ r \in Range(ALLOWED_ROOTS')
                   /\ r \notin Range(ALLOWED_ROOTS) =>
                         /\ adm'.res = "added"
                         /\ Count(r, ALLOWED_ROOTS') = 1
                   /\ r \in Range(ALLOWED_ROOTS) =>
                         /\ adm'.res = "already"
                         /\ ALLOWED_ROOTS' = ALLOWED_ROOTS
             /\ (remove_root(p) /\ is_dir(fs, r) /\ r \notin Range(ALLOWED_ROOTS)) =>
                   /\ adm'.res = "notfound"
                   /\ ALLOWED_ROOTS' = ALLOWED_ROOTS]_vars

C8_Witness ==
    /\ adm.op = "add_allowed_root"
    /\ adm.res = "already"
    /\ Count(pData2, ALLOWED_ROOTS) = 1
    /\ Len(ALLOWED_ROOTS) = 1

\* C9: an administrative add or update that returns an error leaves the
\* registry exactly as it was before the call.
C9_ErrorLeavesRegistry ==
    [][(adm'.op \in {"add_allowed_root", "update_roots", "main_update_roots",
                     "main_add_roots"}
           /\ adm'.res = "error") =>
          /\ ALLOWED_ROOTS' = ALLOWED_ROOTS
          /\ CMD_LINE_ROOTS' = CMD_LINE_ROOTS]_vars

\* C10: the static part of the scope an authorization computes is the
\* registry content of the instant its copy was taken, whatever add, remove
\* or update ran while the fetch of the client's roots was pending; the
\* client's roots only follow it.
C10_SnapshotStable ==
    /\ (call.pc = "fetch" /\ call.tool \in AwaitTools) => call.snap = call.snapAt
    /\ (call.pc = "done" /\ call.tool \in AwaitTools) =>
          /\ IsPrefixOf(call.snapAt, call.scope)
          /\ call.fetched # "roots" => call.scope = call.snapAt

C10_Witness ==
    /\ call.pc = "done"
    /\ call.tool \in AwaitTools
    /\ call.mutated
    /\ call.snapAt # GLOBAL_ROOTS
    /\ call.fetched = "roots"
    /\ SubSeq(call.scope, 1, Len(call.snapAt)) = call.snapAt

\* C11: the effective scope holds each canonical root at most once: when
\* the registry copy has no duplicate, a root that the client asserts and
\* the registry already holds, or that the client asserts twice, appears
\* once in the scope the resolver returns.
C11_ScopeHasNoDuplicates ==
    (call.pc = "done" /\ call.tool \in AwaitTools \cup MainTools
        /\ \A r \in Range(call.snapAt) : Count(r, call.snapAt) = 1)
    => \A r \in Range(call.scope) : Count(r, call.scope) = 1

\* C12: two different causes of denial never reach the caller as the same
\* kind of error: the class of the exception raised for the cause of a
\* denied call differs from the class raised for every other cause.
C12_DenialKindsDistinct ==
    (Validated /\ call.res \in DenialCauses)
    => \A other \in DenialCauses \ {call.res} :
           ExceptionClass(other) # ExceptionClass(call.res)

\* the stored value is a token that the key k opens
Decryptable(k, raw) == raw.t = "str" /\ fernet_decrypt(k, raw.x).ok

\* C13: a put that returned is followed by a get of the same key and
\* collection, through the same instance, that returns a value equal to
\* the value put, in every backend, bare or wrapped.
C13_RoundTrip ==
    (obs.op = "put" /\ obs.res = None /\ storage.up)
    => instance_get(storage, obs.via, obs.key, obs.coll) = obs.val

\* C14: what FernetEncryptionWrapper.put hands to the inner store is the
\* ciphertext of the caller's value under the wrapper's key, never the
\* plaintext; when encryption fails the put raises, the inner store is not
\* called and holds what it held before.
C14_InnerGetsCiphertext ==
    [][(obs'.op = "put" /\ obs'.via \in FernetKeys) =>
          /\ obs'.inner # None =>
                /\ Decryptable(obs'.via, obs'.inner)
                /\ fernet_decrypt(obs'.via, obs'.inner.x).s
                      = Fernet_plaintext(obs'.val)
                /\ obs'.inner.x # Fernet_plaintext(obs'.val)
          /\ ~encodable(Fernet_plaintext(obs'.val)) =>
                /\ obs'.res.t = "raise"
                /\ obs'.inner = None
                /\ storage' = storage]_vars

C14_Witness ==
    /\ obs.op = "put"
    /\ obs.via = "K1"
    /\ obs.val = vToken
    /\ obs.res = None
    /\ obs.inner = Str(<<"gAAAAA", "K1", "abc123">>)
    /\ store_get(storage, obs.key, obs.coll) = obs.inner

C16_NoAliasing ==
    [][obs'.op \in {"put", "delete"} =>
          \A a \in Addresses :
              (<<coll_or_default(a.coll), a.key>>
                  # <<coll_or_default(obs'.coll), obs'.key>>)
              => store_get(storage', a.key, a.coll)
                    = store_get(storage, a.key, a.coll)]_vars

\* C17: in every backend a record put with no collection is the record of
\* the collection "default" and the other way round: after a put under
\* either, get returns the same under both.
C17_OmittedIsDefault ==
    (obs.op = "put" /\ obs.res = None
        /\ obs.coll \in {NoCollection, cDefault})
    => instance_get(storage, obs.via, obs.key, NoCollection)
          = instance_get(storage, obs.via, obs.key, cDefault)

\* C18: a record put through a wrapped DiskStore is returned by get on a
\* fresh wrapped DiskStore built with the same key on the same path, also
\* on the path .fastmcp_storage as get_auth_provider prepares it.
C18_SurvivesRestart ==
    (obs.op = "restart" /\ storage.backend = "DiskStore"
        /\ obs.val = vToken)
    => /\ obs.res = None
       /\ instance_get(storage, obs.via, obs.key, obs.coll) = vToken

\* the configuration asks for the persistent, encrypted store
PersistentConfig ==
    /\ auth.cfg.AUTH_ENABLED
    /\ auth.cfg.CLIENT_ID
    /\ auth.cfg.JWT_SIGNING_KEY = "set"
    /\ auth.cfg.STORAGE_ENCRYPTION_KEY = "valid"
    /\ auth.cfg.USE_PERSISTENT_STORAGE

\* C19: with both keys set and persistence requested get_auth_provider
\* builds an encrypted Redis store when USE_REDIS is true and an encrypted
\* Disk store otherwise, with the configured signing key; in every other
\* configuration that has authentication enabled and a client id it builds
\* an unencrypted Memory store with a freshly generated signing key.
C19_SelectionFollowsConfig ==
    (auth.pc = "done" /\ auth.cfg.AUTH_ENABLED /\ auth.cfg.CLIENT_ID
        /\ auth.cfg.STORAGE_ENCRYPTION_KEY # "invalid"
        /\ auth.cfg.kind # "file")
    => IF PersistentConfig
       THEN /\ auth.out.provider
            /\ auth.out.wrapped
            /\ auth.out.jwt = "configured"
            /\ auth.out.backend \in {"RedisStore", "DiskStore"}
            /\ ~auth.cfg.USE_REDIS => auth.out.backend = "DiskStore"
            /\ (auth.cfg.USE_REDIS /\ auth.cfg.redis_installed
                    /\ auth.cfg.redis_reachable)
               => auth.out.backend = "RedisStore"
       ELSE /\ auth.out.provider
            /\ ~auth.out.wrapped
            /\ auth.out.jwt = "random"
            /\ auth.out.backend = "MemoryStore"

\* C20: when the Redis backend is selected and the server cannot be
\* reached, the backend get_auth_provider goes on with is the Disk store,
\* never a Redis store whose connection is down.
C20_UnreachableRedisFallsBack ==
    (auth.pc = "done" /\ PersistentConfig /\ auth.cfg.USE_REDIS
        /\ ~auth.cfg.redis_reachable)
    => auth.out.backend = "DiskStore"

\* authentication is enabled and the client id is configured
AuthConfigured == auth.cfg.AUTH_ENABLED /\ auth.cfg.CLIENT_ID

\* C21: storage selection never raises out of get_auth_provider: with an
\* invalid storage-encryption key, or a backend that cannot be built (the
\* redis library missing, .fastmcp_storage being a file), a provider is
\* still returned.
C21_SelectionNeverRaises ==
    (auth.pc = "done" /\ AuthConfigured
        /\ \/ auth.cfg.STORAGE_ENCRYPTION_KEY = "invalid"
           \/ ~auth.cfg.redis_installed
           \/ auth.cfg.kind = "file")
    => /\ auth.out.raised = "none"
       /\ auth.out.provider

\* the value a bare put asked for is what the Redis server now holds
RedisWritten ==
    LET k == RedisStore_make_key(obs.key, obs.coll)
    IN storage.up /\ k \in DOMAIN storage.db /\ storage.db[k] = obs.val.x

\* C22: RedisStore operations do not raise on a backend failure, and a put
\* whose write did not reach the backend returns an outcome that differs
\* from the outcome of a put that was written.
C22_RedisReportsFailure ==
    (storage.backend = "RedisStore" /\ obs.via = "bare"
        /\ obs.op \in {"get", "put", "delete"})
    => /\ obs.res.t # "raise"
       /\ (obs.op = "put" /\ ~RedisWritten) => obs.res # None

\* C27: the registry of the modular server never holds a canonical root
\* twice, whatever add_allowed_root, update_roots and remove_root ran.
C27_RegistryHasNoDuplicates ==
    \A r \in Range(ALLOWED_ROOTS) : Count(r, ALLOWED_ROOTS) = 1

C30_RootsConvertedOneByOne ==
    [][\A answer \in ClientAnswers :
          (FetchReturn(answer) /\ answer.st = "roots" /\ call'.pc = "done")
          => \A i \in 1..Len(answer.roots) :
                (answer.roots[i].scheme = "file"
                    /\ answer.roots[i].form = "object"
                    /\ exists(fs, answer.roots[i].path))
                => resolve(answer.roots[i].path) \in Range(call'.scope)]_vars

\* str.lower() of a name
Lower(name) ==
    [i \in 1..Len(name) |->
        IF name[i] = "PEM" THEN "pem" ELSE IF name[i] = "S" THEN "s"
        ELSE name[i]]

\* the name ends with the text ext
EndsWith(name, ext) ==
    Len(ext) <= Len(name)
        /\ SubSeq(name, Len(name) - Len(ext) + 1, Len(name)) = ext

\* C28: read_log_file never reads a file whose resolved name ends with an
\* entry of the sensitive denylist, in any letter case, the file named
\* exactly like the entry included.
C28_SensitiveNamesDenied ==
    (call.pc = "done" /\ call.tool = "read_log_file" /\ call.canon # <<>>
        /\ \E ext \in SENSITIVE_EXTENSIONS :
              EndsWith(Lower(call.canon[Len(call.canon)]), ext))
    => call.res # "ok"

\* C26: authorization follows the registry the administrative tools
\* mutate: validate_path without client roots denies an existing path as outside
\* exactly when no root of settings.ALLOWED_ROOTS contains it, so a root
\* added is honoured and a root removed is not.
C26_MutationsTakeEffect ==
    [][\A tool \in {t \in AwaitTools : must_exist(t)} :
          \A raw \in ToolInputs(tool) :
              (StartCall(tool, raw, FALSE) /\ exists(fs, call'.canon))
              => (call'.res = "outside"
                     <=> ~SegWithin(call'.canon, ALLOWED_ROOTS))]_vars

\* C25: delete_file(path, confirm=True) on an existing file inside the
\* allowed roots removes the file and returns the success message.
C25_ConfirmedDeleteRemoves ==
    (call.pc = "done" /\ call.tool = "delete_file" /\ call.confirm
        /\ call.authz = "allow")
    => /\ call.res = "ok"
       /\ ~exists(fs, call.canon)

\* the lines numbered from..to of a list, none when the range is empty
LinesFrom(all_lines, from) ==
    [i \in 1..(Len(all_lines) - from + 1) |-> all_lines[from + i - 1]]

\* C23: read_log_file(path, lines = n) on an authorized existing file of L
\* lines returns the last min(n, L) lines in their order for n >= 0 (the
\* empty string for n = 0 or an empty file) and the negative-count error for
\* n < 0.
C23_TailOfLog ==
    (call.pc = "done" /\ call.tool = "read_log_file" /\ call.authz = "allow"
        /\ is_file(fs, call.canon))
    => LET n == call.lines
           all_lines == splitlines(content)
           L == Len(all_lines)
           k == IF n < L THEN n ELSE L
       IN IF n < 0 THEN call.res = "negative" /\ call.out = <<>>
          ELSE /\ call.res = "ok"
               /\ call.out = join(LinesFrom(all_lines, L - k + 1))
               /\ (n = 0 \/ content = <<>>) => call.out = <<>>

\* a file of three lines read with lines = 2, and a file of one line read
\* with more lines than it has
C23_Witness ==
    /\ call.pc = "done" /\ call.tool = "read_log_file" /\ call.res = "ok"
    /\ content = <<"a", LF, "b">>
    /\ call.lines = 1
    /\ call.out = <<"b">>

\* C24: DiskStore's load-modify-save is not atomic: a save made from a
\* document loaded before another caller's save writes that other save away,
\* and only such a save takes a record of another caller out of the file or
\* puts one back.
C24_OnlyStaleSaveOverwrites ==
    [][\A w \in Writers :
          (writer_save(w) /\ ~writers[w].stale)
          => \A a \in DiskAddresses \ {writers[w].a} :
                /\ (a \in DOMAIN storage.doc <=> a \in DOMAIN storage'.doc)
                /\ a \in DOMAIN storage.doc
                      => storage'.doc[a] = storage.doc[a]]_vars

\* both puts have returned and the record of the first is not in the file
C24_Witness ==
    /\ writers["W1"].pc = "returned" /\ writers["W1"].op = "put"
    /\ writers["W2"].pc = "returned" /\ writers["W2"].op = "put"
    /\ writers["W2"].stale
    /\ writers["W1"].a # writers["W2"].a
    /\ writers["W1"].a \notin DOMAIN storage.doc
    /\ writers["W2"].a \in DOMAIN storage.doc

====
